---- MODULE Spec2Model ----
(***************************************************************************)
(* depthcharge-tools: the image construction pipeline.                     *)
(*                                                                         *)
(* The model follows one run of `depthchargectl build`                     *)
(* (depthchargectl/_build.py, depthchargectl_build.__call__) with every    *)
(* mkdepthcharge invocation it makes (mkdepthcharge.py,                    *)
(* mkdepthcharge.__call__) unfolded into its steps.  File sizes are small  *)
(* integers; the outcome of every external tool (exit status, magic bytes  *)
(* of what it wrote) is chosen by the environment.                         *)
(*                                                                         *)
(* Some parts are followed on their own, with the driver                   *)
(* at rest: the input files (SpecFiles, SpecPermuted: classification of    *)
(* the positional files by their first bytes, resolution of kernel,        *)
(* ramdisk and device-tree blobs, copy into tmpdir, gunzip, lz4 / lzma,    *)
(* with file names and paths) and the zimage build with an initramfs byte  *)
(* by byte (SpecPatch: --kernel-start, bzImage header, padding, container  *)
(* of the first signing pass, boot-params patch).  The comparison of       *)
(* architecture values (utils.Architecture) is followed in SpecArch, and   *)
(* SpecLive is the driver run under the fairness of sequential execution.  *)
(***************************************************************************)
EXTENDS Integers, Sequences, FiniteSets, TLC

\* Bounds of the model.
MaxSize == 3      \* largest file size (kernel, ramdisk, image, board maximum)
MaxReq == 2       \* longest --compress argument list
MaxDtbs == 1      \* most device-tree blobs handed to the driver
MaxArgs == 3      \* most positional FILE arguments of mkdepthcharge
MaxBlobs == 2     \* most device-tree blobs among the positional arguments
MaxPages == 2     \* most pages of init_size, of kernel body, before the initramfs

CompressTypes == {"none", "lz4", "lzma"}
ImageFormats == {"fit", "zimage"}

Range(s) == {s[i] : i \in 1..Len(s)}
SeqsUpTo(S, n) == UNION {[1..k -> S] : k \in 0..n}

RECURSIVE Sum(_)
Sum(s) == IF Len(s) = 0 THEN 0 ELSE Head(s) + Sum(Tail(s))

\* list.index / tuple.index: position of the first occurrence
index(s, x) == CHOOSE i \in 1..Len(s) : s[i] = x /\ \A j \in 1..(i - 1) : s[j] # x

\* sorted(S, key=s.index): the elements of S by ascending key
RECURSIVE sorted(_, _)
sorted(S, s) ==
    IF S = {} THEN <<>>
    ELSE LET x == CHOOSE x \in S : \A y \in S : index(s, x) <= index(s, y)
         IN  <<x>> \o sorted(S \ {x}, s)

\* sorted(set(s), key=s.index)
sorted_set(s) == sorted(Range(s), s)

\* a remove that leaves the list as it is
remove_nothing(s, x) == s

\* list.remove(x): drops the first occurrence of x
remove(s, x) ==
    LET k == index(s, x)
    IN  [i \in 1..(Len(s) - 1) |-> IF i < k THEN s[i] ELSE s[i + 1]]

\* compress without the "zimage doesn't support compression" override
compress_nozimage(b, args) ==
    LET default == <<"none">>
                   \o (IF b.boots_lz4_kernel THEN <<"lz4">> ELSE <<>>)
                   \o (IF b.boots_lzma_kernel THEN <<"lzma">> ELSE <<>>)
        chosen  == IF Len(args) = 0 THEN default ELSE args
    IN  sorted_set(chosen)

\* depthchargectl_build.compress: the candidate list of the driver
compress(b, args) ==
    LET default == <<"none">>
                   \o (IF b.boots_lz4_kernel THEN <<"lz4">> ELSE <<>>)
                   \o (IF b.boots_lzma_kernel THEN <<"lzma">> ELSE <<>>)
        chosen  == IF Len(args) = 0
                   THEN IF b.image_format = "zimage" THEN <<"none">> ELSE default
                   ELSE args
    IN  sorted_set(chosen)

\* How depthchargectl build can end: the value it returns or the CommandExit
\* it raises.  SizeTooBigError and InitramfsSizeTooBigError carry the return
\* codes their constructors set.
SizeTooBigError == "SizeTooBigError"
InitramfsSizeTooBigError == "InitramfsSizeTooBigError"
BuildFailed == "CommandExit: Failed while creating depthcharge image."
Returned == "returned self.output"
Running == "running"
returncode == [e \in {SizeTooBigError, InitramfsSizeTooBigError} |->
                  IF e = InitramfsSizeTooBigError THEN 3 ELSE 4]

\* Files: who wrote it, its size, whether the writer finished, whether the
\* signer's verify mode accepted it.
NoFile == [by |-> "absent", size |-> 0, complete |-> FALSE, verified |-> FALSE]
PrevImage == [by |-> "previous", size |-> 1, complete |-> TRUE, verified |-> TRUE]
Image(c, sz) == [by |-> c, size |-> sz, complete |-> TRUE, verified |-> FALSE]
Partial(c, sz) == [by |-> c, size |-> sz, complete |-> FALSE, verified |-> FALSE]

VARIABLES
    board,          \* self.board: image_format, image_max_size, boots_*_kernel
    kernel_size,    \* self.kernel.stat().st_size
    kernel_gz,      \* the kernel file is gzip compressed
    initrd,         \* self.initrd: <<>> for None, <<size>> otherwise
    dtbs,           \* self.dtbs: sizes of the device-tree blobs
    compress_arg,   \* the --compress arguments
    img_size,       \* size of the image the tools produce for each candidate
    previous,       \* the file at self.output when the run started
    files,          \* the files at the paths "output" (self.output) and "outtmp"
    temp_img,       \* tmpdir / "temp.img" of the running mkdepthcharge
    scratch,        \* the directories under self.tmpdir that hold files
    compress_list,  \* the candidate list the loop iterates
    idx,            \* number of candidates the loop has taken
    built,          \* candidates mkdepthcharge was invoked for, in order
    calls,          \* external tool invocations, in order
    err,            \* what made mkdepthcharge raise, "" if nothing
    pc,             \* position in __call__
    result          \* how depthchargectl build ended

\* State of mkdepthcharge's input resolution (mkdepthcharge.files, .vmlinuz,
\* .initramfs, .dtbs and the copy into tmpdir), followed on its own.
VARIABLES
    argv,           \* the positional FILE arguments, in order
    vmlinuz_arg,    \* --vmlinuz: <<>> for None, <<file>> otherwise
    initramfs_arg,  \* --initramfs: <<>> for None, <<file>> otherwise
    dtbs_arg,       \* --dtbs: the files given with the flag
    f_idx,          \* number of positional files the loop of `files` has taken
    sniffed,        \* the vmlinuz / initramfs / dtbs lists `files` is filling
    probes,         \* files whose prefix was handed to gzip for decompression
    in_vmlinuz,     \* self.vmlinuz: <<>> while unresolved, <<file>> otherwise
    in_initramfs,   \* self.initramfs: <<>> for None, <<file>> otherwise
    in_dtbs,        \* self.dtbs
    tmpdir,         \* paths of the files written into tmpdir
    vmlinuz,        \* the local variable vmlinuz of __call__: a path, <<>> if unset
    written,        \* the file operations of __call__ so far: op, src, dest
    mk_err,         \* the ValueError input resolution raised, "" if none
    mk_pc           \* position in the input resolution

drvvars == <<board, kernel_size, kernel_gz, initrd, dtbs, compress_arg, img_size,
             previous, files, temp_img, scratch, compress_list, idx, built,
             calls, err, pc, result>>

filevars == <<argv, vmlinuz_arg, initramfs_arg, dtbs_arg, f_idx, sniffed,
              probes, in_vmlinuz, in_initramfs, in_dtbs, tmpdir, vmlinuz,
              written, mk_err, mk_pc>>

\* State of the zimage build with an initramfs (mkdepthcharge.kernel_start
\* and mkdepthcharge.__call__, 619-716), followed byte by byte on its own.
VARIABLES
    kernel_start_arg, \* --kernel-start: <<>> for None, <<address>> otherwise
    self_kernel_start, \* self.kernel_start as evaluated, 0 before
    vmlinuz_data,   \* the followed bytes of the scratch vmlinuz, by offset
    vmlinuz_size,   \* data.size() of the scratch vmlinuz
    unpadded_size,  \* its size when the build started
    pad_vmlinuz,    \* self.pad_vmlinuz
    pad_to,         \* the computed padding size
    initramfs_size, \* initramfs.stat().st_size
    placed_at,      \* the file offset at which vbutil_kernel put the initramfs
    data,           \* the followed bytes of temp.img, by offset
    temp_size,      \* data.size() of temp.img
    zi_err,         \* the exception raised, "" if none
    zi_pc           \* position in the zimage build

patchvars == <<kernel_start_arg, self_kernel_start, vmlinuz_data,
               vmlinuz_size, unpadded_size, pad_vmlinuz, pad_to, initramfs_size,
               placed_at, data, temp_size, zi_err, zi_pc>>

\* State of a comparison of two architecture values (utils.Architecture),
\* followed on its own.
VARIABLES
    arch_self,      \* the left operand, an Architecture
    arch_other,     \* the right operand, an Architecture or a plain str
    eq_result,      \* <<self == other>> once evaluated, <<>> before
    ne_result       \* <<self != other>> once evaluated, <<>> before

archvars == <<arch_self, arch_other, eq_result, ne_result>>

\* what a run of depthchargectl build leaves alone
aside == <<filevars, patchvars, archvars>>

\* what the input resolution leaves alone
notfiles == <<drvvars, patchvars, archvars>>

\* what the byte-level zimage build leaves alone
notpatch == <<drvvars, filevars, archvars>>

\* what a comparison of architectures leaves alone
notarch == <<drvvars, filevars, patchvars>>

vars == <<drvvars, aside>>

inputs == <<board, kernel_size, kernel_gz, initrd, dtbs, compress_arg, previous>>

output == files["output"]
outtmp == files["outtmp"]

\* mkdepthcharge pointed at the final destination instead of outtmp
mk_output_direct == "output"

\* mkdepthcharge(..., output=outtmp, ...): the path mkdepthcharge writes to
mk_output == "outtmp"

\* ------------------------------------------------------------------------
\* mkdepthcharge input files: files, vmlinuz, initramfs, dtbs

\* the signatures `files` looks for at the start of a file
GzipMagic == <<31, 139>>                    \* b"\x1f\x8b"
MZ == <<77, 90>>                            \* b"MZ"
ELF == <<69, 76, 70>>                       \* b"ELF"
Cpio070701 == <<48, 55, 48, 55, 48, 49>>    \* b"070701"
Cpio070702 == <<48, 55, 48, 55, 48, 50>>    \* b"070702"
Cpio070707 == <<48, 55, 48, 55, 48, 55>>    \* b"070707"
FdtMagic == <<208, 13, 254, 237>>           \* b"\xd0\x0d\xfe\xed"

\* bytes.startswith
startswith(head, prefix) ==
    /\ Len(head) >= Len(prefix)
    /\ SubSeq(head, 1, Len(prefix)) = prefix

\* A file on disk, as far as mkdepthcharge looks at it: `name` is its file
\* name, stem first and one part for each suffix; `head` are its first bytes; for a gzip file `gunzipped` is what gzip writes when it is handed
\* that prefix and `truncated` tells whether gzip hit the end of the prefix
\* before the end of the stream (and exited nonzero).
File(name, head, gunzipped, truncated) ==
    [name |-> name, head |-> head, gunzipped |-> gunzipped,
     truncated |-> truncated]

\* e_ident of an ELF executable: 0x7f 'E' 'L' 'F'
ElfIdent == <<127>> \o ELF

PeKernel == File(<<"vmlinuz", ".efi">>, MZ \o <<144>>, <<>>, FALSE)
ElfKernel == File(<<"vmlinux">>, ElfIdent \o <<2>>, <<>>, FALSE)
ElfText == File(<<"ELF", ".txt">>, ELF \o <<32>>, <<>>, FALSE)
RawImage == File(<<"Image">>, <<0, 0>>, <<>>, FALSE)
Ramdisks == {File(<<"initrd", ".newc">>, Cpio070701 \o <<48>>, <<>>, FALSE),
             File(<<"initrd", ".crc">>, Cpio070702 \o <<48>>, <<>>, FALSE),
             File(<<"initrd", ".odc">>, Cpio070707 \o <<48>>, <<>>, FALSE)}
DtbNames == <<"a", "b", "c", "d">>
Dtb(n) == File(<<DtbNames[n], ".dtb">>, FdtMagic \o <<0>>, <<>>, FALSE)
\* gzip files: a kernel longer than the prefix, one that fits the prefix
\* whole, and a prefix gzip gets nothing out of
GzKernel == File(<<"vmlinuz-6.1">>, GzipMagic \o <<8>>, PeKernel.head, TRUE)
GzSmallKernel == File(<<"small", ".gz">>, GzipMagic \o <<8>>, PeKernel.head, FALSE)
GzNothing == File(<<"broken", ".gz">>, GzipMagic \o <<0>>, <<>>, TRUE)

Catalogue ==
    {PeKernel, ElfKernel, ElfText, RawImage, Dtb(1), GzKernel, GzSmallKernel,
     GzNothing} \cup Ramdisks

\* gzip_runner.decompress(head, subprocess.PIPE): the partial output replaces
\* head only when the run raised CalledProcessError and wrote something
sniff(f) ==
    IF startswith(f.head, GzipMagic) /\ f.truncated /\ f.gunzipped # <<>>
    THEN f.gunzipped
    ELSE f.head

is_cpio(head) ==
    \/ startswith(head, Cpio070701)
    \/ startswith(head, Cpio070702)
    \/ startswith(head, Cpio070707)

\* a classifier that goes by position only
role_by_position(f, lists) ==
    IF Len(lists.vmlinuz) = 0 THEN "vmlinuz"
    ELSE IF Len(lists.initramfs) = 0 THEN "initramfs"
    ELSE "dtbs"

\* the if / elif chain of the loop body: the list the file is appended to
role(f, lists) ==
    LET head == sniff(f) IN
    IF startswith(head, MZ) \/ startswith(head, ELF) THEN "vmlinuz"
    ELSE IF is_cpio(head) THEN "initramfs"
    ELSE IF startswith(head, FdtMagic) THEN "dtbs"
    ELSE IF Len(lists.vmlinuz) = 0 THEN "vmlinuz"
    ELSE IF Len(lists.initramfs) = 0 THEN "initramfs"
    ELSE "dtbs"

NoFiles == [vmlinuz |-> <<>>, initramfs |-> <<>>, dtbs |-> <<>>]

\* one iteration of `for f in files`
append_file(lists, f) == [lists EXCEPT ![role(f, lists)] = Append(@, f)]

\* mkdepthcharge.files as a function of the positional arguments
RECURSIVE files_from(_, _)
files_from(lists, fs) ==
    IF fs = <<>> THEN lists
    ELSE files_from(append_file(lists, Head(fs)), Tail(fs))

files_of(fs) == files_from(NoFiles, fs)

\* no input resolution is followed
FilesIdle ==
    /\ argv = <<>>
    /\ vmlinuz_arg = <<>>
    /\ initramfs_arg = <<>>
    /\ dtbs_arg = <<>>
    /\ f_idx = 0
    /\ sniffed = NoFiles
    /\ probes = <<>>
    /\ in_vmlinuz = <<>>
    /\ in_initramfs = <<>>
    /\ in_dtbs = <<>>
    /\ tmpdir = {}
    /\ vmlinuz = <<>>
    /\ written = <<>>
    /\ mk_err = ""
    /\ mk_pc = "off"

\* ------------------------------------------------------------------------
\* mkdepthcharge.__call__, image_format == "zimage" with an initramfs: the
\* bytes of the bzImage header and of temp.img

SetupSize == 65536       \* 0x10000
PageSize == 4096         \* 0x1000
KernelStart == 1048576   \* 0x100000

HdrS == <<72, 100, 114, 83>>                      \* b"HdrS"
CHROMEOS == <<67, 72, 82, 79, 77, 69, 79, 83>>    \* b"CHROMEOS"

\* mkdepthcharge.kernel_start(addr): what it returns, <<>> if nothing, and
\* the exception it raises, "" if none.  With an address given it evaluates
\* parse_bytesize(pad), and pad is no name of the function, of the module
\* or of the builtins.
kernel_start(addr) ==
    IF addr = <<>>
    THEN [returns |-> <<KernelStart>>, raises |-> ""]
    ELSE [returns |-> <<>>, raises |-> "NameError: name 'pad' is not defined"]

addr_to_offs(addr, load_addr) == addr - load_addr + SetupSize
offs_to_addr(offs, load_addr) == offs + load_addr - SetupSize

\* rounding down instead of up
align_down(size) == (size \div PageSize) * PageSize

align_up(size) == ((size + PageSize - 1) \div PageSize) * PageSize

\* struct.pack / struct.unpack of a little-endian unsigned field of n bytes
RECURSIVE pack_le(_, _)
pack_le(v, n) ==
    IF n = 0 THEN <<>> ELSE <<v % 256>> \o pack_le(v \div 256, n - 1)

RECURSIVE unpack_le(_)
unpack_le(b) == IF b = <<>> THEN 0 ELSE Head(b) + 256 * unpack_le(Tail(b))

\* the bytes seq laid at offset at, as a piece of a file
Bytes(at, seq) == [o \in at..(at + Len(seq) - 1) |-> seq[o - at + 1]]

\* data[a:b] of a file of which only some bytes are followed: a slice that
\* reaches outside them compares unequal to every signature
slice(d, a, b) ==
    IF \A o \in a..(b - 1) : o \in DOMAIN d
    THEN [i \in 1..(b - a) |-> d[a + i - 1]]
    ELSE <<>>

\* an assignment that also clears the byte after the slice
store_overrun(d, a, seq) ==
    [o \in DOMAIN d |->
        IF o \in a..(a + Len(seq) - 1) THEN seq[o - a + 1]
        ELSE IF o = a + Len(seq) THEN 0
        ELSE d[o]]

\* data[a:a+len(seq)] = seq
store(d, a, seq) ==
    [o \in DOMAIN d |-> IF o \in a..(a + Len(seq) - 1) THEN seq[o - a + 1] ELSE d[o]]

\* mmap.resize(to) of a file of `size` bytes: the file is cut at `to`, or
\* grows by zero bytes, of which the first and the last are followed
resize(d, size, to) ==
    IF to <= size
    THEN [o \in {x \in DOMAIN d : x < to} |-> d[o]]
    ELSE d @@ [o \in {size, to - 1} |-> 0]

\* the bzImage header of the scratch vmlinuz: signature at 0x202, pref_address
\* (8 bytes) and init_size (4 bytes) from 0x258
VmlinuzHeader(sig, pref, init) ==
    Bytes(514, sig) @@ Bytes(600, pack_le(pref, 8) \o pack_le(init, 4))

pref_address == unpack_le(slice(vmlinuz_data, 600, 608))
init_size == unpack_le(slice(vmlinuz_data, 608, 612))

\* what vbutil_kernel --pack writes: the keyblock with its size at 0x10, the
\* preamble right after it with the bootloader address at 0x38, and in the
\* body the boot params one page before the bootloader, which is the
\* initramfs, at file offset `at`; of the boot params the signature, the two
\* initramfs fields and the byte on either side of them are followed
TempImg(magic, kb_size, at, sig) ==
    Bytes(0, magic)
    @@ Bytes(16, pack_le(kb_size, 4))
    @@ Bytes(kb_size + 56, pack_le(offs_to_addr(at, KernelStart), 4))
    @@ Bytes(at - PageSize + 514, sig)
    @@ Bytes(at - PageSize + 535, <<255, 0, 0, 0, 0, 0, 0, 0, 0, 255>>)

keyblock_size == unpack_le(slice(data, 16, 20))
bootloader_addr ==
    unpack_le(slice(data, keyblock_size + 56, keyblock_size + 60))
bootloader_offset == addr_to_offs(bootloader_addr, KernelStart)
initramfs_offset == bootloader_offset
initramfs_addr == offs_to_addr(initramfs_offset, self_kernel_start)
params_offset == bootloader_offset - PageSize

\* the two fields written the other way round
patch_swapped(d, p, addr, size) ==
    store(store(d, p + 536, pack_le(size, 4)), p + 540, pack_le(addr, 4))

\* data[p+0x218:p+0x21c] = struct.pack("<I", initramfs_addr)
\* data[p+0x21c:p+0x220] = struct.pack("<I", initramfs_size)
patch(d, p, addr, size) ==
    store(store(d, p + 536, pack_le(addr, 4)), p + 540, pack_le(size, 4))

\* no zimage build is followed byte by byte
PatchIdle ==
    /\ kernel_start_arg = <<>>
    /\ self_kernel_start = 0
    /\ vmlinuz_data = <<>>
    /\ vmlinuz_size = 0
    /\ unpadded_size = 0
    /\ pad_vmlinuz = FALSE
    /\ pad_to = 0
    /\ initramfs_size = 0
    /\ placed_at = 0
    /\ data = <<>>
    /\ temp_size = 0
    /\ zi_err = ""
    /\ zi_pc = "off"

\* ------------------------------------------------------------------------
\* utils.Architecture

arm_32 == <<"arm">>
arm_64 == <<"arm64", "aarch64">>
arm == arm_32 \o arm_64
x86_32 == <<"i386", "x86">>
x86_64 == <<"x86_64", "amd64">>
x86 == x86_32 \o x86_64
all == arm \o x86

\* one group for each of the two classes
groups_by_class == <<arm, x86>>

groups == <<arm_32, arm_64, x86_32, x86_64>>

\* a value: its type and the string it is
Architecture(s) == [cls |-> "Architecture", str |-> s]
Str(s) == [cls |-> "str", str |-> s]

\* isinstance(other, Architecture)
isinstance(v) == v.cls = "Architecture"

\* v in group: the items of a group are plain strings, compared as strings
in_group(v, group) == v.str \in Range(group)

\* Architecture.__eq__
Architecture_eq(self, other) ==
    IF /\ isinstance(other)
       /\ \E g \in 1..Len(groups) :
              in_group(self, groups[g]) /\ in_group(other, groups[g])
    THEN TRUE
    ELSE self.str = other.str

\* Architecture.__ne__
Architecture_ne(self, other) ==
    IF /\ isinstance(other)
       /\ \E g \in 1..Len(groups) :
              in_group(self, groups[g]) /\ ~in_group(other, groups[g])
    THEN TRUE
    ELSE self.str # other.str

\* no comparison of architectures is followed
ArchIdle ==
    /\ arch_self = Architecture("arm")
    /\ arch_other = Architecture("arm")
    /\ eq_result = <<>>
    /\ ne_result = <<>>

Boards == [image_format : ImageFormats,
           image_max_size : (MaxSize - 1)..MaxSize,
           boots_lz4_kernel : BOOLEAN,
           boots_lzma_kernel : BOOLEAN]

Init ==
    /\ board \in Boards
    /\ kernel_size \in 1..2
    /\ kernel_gz \in BOOLEAN
    /\ initrd \in {<<>>} \cup {<<s>> : s \in {1, MaxSize}}
    /\ dtbs \in SeqsUpTo({1}, MaxDtbs)
    \* depthchargectl_build.dtbs refuses dtb files on zimage boards
    /\ board.image_format = "zimage" => dtbs = <<>>
    /\ compress_arg \in SeqsUpTo(CompressTypes, MaxReq)
    \* the flags are read only when no type is requested: with requested
    \* types they are either both set or both clear
    /\ compress_arg # <<>> => board.boots_lz4_kernel = board.boots_lzma_kernel
    /\ img_size = <<>>
    /\ previous = PrevImage
    /\ files = [output |-> previous, outtmp |-> NoFile]
    /\ temp_img = "absent"
    /\ scratch = {}
    /\ compress_list = <<>>
    /\ idx = 0
    /\ built = <<>>
    /\ calls = <<>>
    /\ err = ""
    /\ pc = "start"
    /\ result = Running
    /\ FilesIdle
    /\ PatchIdle
    /\ ArchIdle

initrd_size == IF initrd # <<>> THEN initrd[1] ELSE 0
inputs_size == kernel_size + initrd_size + Sum(dtbs)
cur == compress_list[idx]

Call(tool, ok) == [compress |-> cur, tool |-> tool, ok |-> ok]

\* raise exc out of depthchargectl_build.__call__
Raise(exc) ==
    /\ pc' = "done"
    /\ result' = exc

\* a driver that swallows the exception and goes on with the next candidate
MkRaise_continue(what) ==
    /\ err' = what
    /\ pc' = "loop"
    /\ UNCHANGED result

\* an exception inside mkdepthcharge: `except Exception as err:
\* raise CommandExit("Failed while creating depthcharge image.")`
MkRaise(what) ==
    /\ err' = what
    /\ Raise(BuildFailed)

\* Error early if initramfs is absolutely too big to fit
initramfs_too_big_gt == initrd_size > board.image_max_size

initramfs_too_big == initrd_size >= board.image_max_size

PreCheck ==
    /\ pc = "start"
    /\ IF initramfs_too_big
       THEN Raise(InitramfsSizeTooBigError)
       ELSE pc' = "skip_none" /\ UNCHANGED result
    /\ UNCHANGED <<inputs, aside, scratch, img_size, files, temp_img, compress_list, idx, built,
                   calls, err>>

skip_none_ge(list) ==
    IF inputs_size >= board.image_max_size /\ "none" \in Range(list)
    THEN remove(list, "none")
    ELSE list

\* Skip compress="none" if inputs wouldn't fit max image size
skip_none(list) ==
    IF inputs_size > board.image_max_size /\ "none" \in Range(list)
    THEN remove(list, "none")
    ELSE list

\* The sizes of the images the tools will produce for the candidates are the
\* environment's; they are fixed here, once the candidates are known.
SkipNone ==
    /\ pc = "skip_none"
    /\ compress_list' = skip_none(compress(board, compress_arg))
    /\ img_size' \in [Range(compress_list') -> 1..MaxSize]
    /\ pc' = "loop"
    /\ UNCHANGED <<inputs, aside, scratch, files, temp_img, idx, built, calls, err, result>>

\* tmpdir = self.tmpdir / "mkdepthcharge-{}".format(compress)
tmpdir_of(c) == "mkdepthcharge-" \o c

\* a loop that starts every candidate with the earlier directories and the
\* earlier outtmp removed
LoopNext_cleaned ==
    /\ pc = "loop"
    /\ idx < Len(compress_list)
    /\ idx' = idx + 1
    /\ built' = Append(built, compress_list[idx + 1])
    /\ temp_img' = "absent"
    /\ scratch' = {}
    /\ files' = [files EXCEPT !["outtmp"] = NoFile]
    /\ pc' = "mk_options"
    /\ UNCHANGED <<inputs, aside, img_size, compress_list, calls, err, result>>

\* for compress in compress_list: ... mkdepthcharge(...)
LoopNext ==
    /\ pc = "loop"
    /\ idx < Len(compress_list)
    /\ idx' = idx + 1
    /\ built' = Append(built, compress_list[idx + 1])
    /\ temp_img' = "absent"
    /\ pc' = "mk_options"
    /\ UNCHANGED <<inputs, aside, scratch, img_size, files, compress_list, calls, err, result>>

\* an else branch that does not look at the ramdisk
ForElse_generic ==
    /\ pc = "loop"
    /\ idx = Len(compress_list)
    /\ Raise(SizeTooBigError)
    /\ UNCHANGED <<inputs, aside, scratch, img_size, files, temp_img, compress_list, idx, built,
                   calls, err>>

\* the else branch of the for loop: no candidate was small enough
ForElse ==
    /\ pc = "loop"
    /\ idx = Len(compress_list)
    /\ IF initrd # <<>>
       THEN Raise(InitramfsSizeTooBigError)
       ELSE Raise(SizeTooBigError)
    /\ UNCHANGED <<inputs, aside, scratch, img_size, files, temp_img, compress_list, idx, built,
                   calls, err>>

\* ------------------------------------------------------------------------
\* mkdepthcharge.__call__, invoked with output=outtmp

\* a nonzero exit status of an external tool raises CalledProcessError
tool_raises(ok) == ~ok

\* the options group: zimage forbids a compression other than none
MkOptions ==
    /\ pc = "mk_options"
    /\ IF board.image_format = "zimage" /\ cur # "none"
       THEN MkRaise("ValueError: compress with zimage")
       ELSE pc' = "mk_gunzip" /\ UNCHANGED <<err, result>>
    /\ UNCHANGED <<inputs, aside, scratch, img_size, files, temp_img, compress_list, idx, built,
                   calls>>

\* tmpdir = self.tmpdir, which by now has made the directory; copy the inputs
\* to tmpdir; if is_gzip(vmlinuz): vmlinuz = gunzip(vmlinuz)
MkGunzip ==
    /\ pc = "mk_gunzip"
    /\ scratch' = scratch \cup {tmpdir_of(cur)}
    /\ IF kernel_gz
       THEN \E ok \in BOOLEAN :
                /\ calls' = calls \o <<Call("gzip-test", TRUE), Call("gunzip", ok)>>
                /\ IF tool_raises(ok)
                   THEN MkRaise("CalledProcessError: gunzip")
                   ELSE pc' = "mk_compress" /\ UNCHANGED <<err, result>>
       ELSE /\ calls' = Append(calls, Call("gzip-test", TRUE))
            /\ pc' = "mk_compress"
            /\ UNCHANGED <<err, result>>
    /\ UNCHANGED <<inputs, aside, img_size, files, temp_img, compress_list, idx, built>>

\* a choice that looks at the image format only
build_path_by_format ==
    IF board.image_format = "fit" THEN "mk_fit" ELSE "mk_zimage"

\* if self.image_format == "fit" / elif self.image_format == "zimage" and
\* initramfs is None / elif self.image_format == "zimage"
build_path ==
    IF board.image_format = "fit" THEN "mk_fit"
    ELSE IF initrd = <<>> THEN "mk_zimage"
    ELSE "mk_pad"

\* lz4(vmlinuz) / lzma(vmlinuz), then kernel.args and empty.bin
MkCompress ==
    /\ pc = "mk_compress"
    /\ IF cur \in {"lz4", "lzma"}
       THEN \E ok \in BOOLEAN :
                /\ calls' = Append(calls, Call(cur, ok))
                /\ IF tool_raises(ok)
                   THEN MkRaise("CalledProcessError: " \o cur)
                   ELSE pc' = build_path /\ UNCHANGED <<err, result>>
       ELSE /\ pc' = build_path
            /\ UNCHANGED <<calls, err, result>>
    /\ UNCHANGED <<inputs, aside, scratch, img_size, files, temp_img, compress_list, idx, built>>

\* image_format == "fit": mkimage packs the FIT image
MkImage ==
    /\ pc = "mk_fit"
    /\ \E ok \in BOOLEAN :
        /\ calls' = Append(calls, Call("mkimage", ok))
        /\ IF tool_raises(ok)
           THEN MkRaise("CalledProcessError: mkimage")
           ELSE pc' = "mk_fit_pack" /\ UNCHANGED <<err, result>>
    /\ UNCHANGED <<inputs, aside, scratch, img_size, files, temp_img, compress_list, idx, built>>

\* vbutil_kernel --pack / --repack self.output: a successful run leaves the
\* complete image at the output path, a failed one leaves the path alone or
\* leaves what it had written so far.
SignTo(tool, next) ==
    \E ok \in BOOLEAN :
        /\ calls' = Append(calls, Call(tool, ok))
        /\ IF tool_raises(ok)
           THEN /\ \/ UNCHANGED files
                   \/ \E sz \in {0, img_size[cur]} :
                          files' = [files EXCEPT ![mk_output] = Partial(cur, sz)]
                /\ MkRaise("CalledProcessError: " \o tool)
           ELSE /\ files' = [files EXCEPT ![mk_output] = Image(cur, img_size[cur])]
                /\ pc' = next
                /\ UNCHANGED <<err, result>>

\* a FIT build that returns its output without verifying it
FitPack_unverified ==
    /\ pc = "mk_fit_pack"
    /\ SignTo("pack", "size_check")
    /\ UNCHANGED <<inputs, aside, scratch, img_size, temp_img, compress_list, idx, built>>

\* vbutil_kernel --vmlinuz fit_image --bootloader empty --pack self.output
FitPack ==
    /\ pc = "mk_fit_pack"
    /\ SignTo("pack", "mk_verify")
    /\ UNCHANGED <<inputs, aside, scratch, img_size, temp_img, compress_list, idx, built>>

\* image_format == "zimage" and initramfs is None
ZimagePack ==
    /\ pc = "mk_zimage"
    /\ SignTo("pack", "mk_verify")
    /\ UNCHANGED <<inputs, aside, scratch, img_size, temp_img, compress_list, idx, built>>

\* image_format == "zimage" with an initramfs: check the bzImage header and
\* pad the vmlinuz
PadVmlinuz ==
    /\ pc = "mk_pad"
    /\ \E hdrs \in BOOLEAN :
        IF ~hdrs
        THEN MkRaise("ValueError: not a bzImage")
        ELSE pc' = "mk_pack_temp" /\ UNCHANGED <<err, result>>
    /\ UNCHANGED <<inputs, aside, scratch, img_size, files, temp_img, compress_list, idx, built,
                   calls>>

\* a first signing pass that packs to self.output instead of temp_img
PackTemp_to_output ==
    /\ pc = "mk_pack_temp"
    /\ \E ok \in BOOLEAN :
        /\ calls' = Append(calls, Call("pack-temp", ok))
        /\ IF tool_raises(ok)
           THEN /\ temp_img' \in {"absent", "partial"}
                /\ UNCHANGED files
                /\ MkRaise("CalledProcessError: pack-temp")
           ELSE /\ temp_img' = "packed"
                /\ files' = [files EXCEPT ![mk_output] = Image(cur, img_size[cur])]
                /\ pc' = "mk_patch"
                /\ UNCHANGED <<err, result>>
    /\ UNCHANGED <<inputs, aside, scratch, img_size, compress_list, idx, built>>

\* vbutil_kernel --bootloader initramfs --pack temp_img
PackTemp ==
    /\ pc = "mk_pack_temp"
    /\ \E ok \in BOOLEAN :
        /\ calls' = Append(calls, Call("pack-temp", ok))
        /\ IF tool_raises(ok)
           THEN /\ temp_img' \in {"absent", "partial"}
                /\ MkRaise("CalledProcessError: pack-temp")
           ELSE /\ temp_img' = "packed"
                /\ pc' = "mk_patch"
                /\ UNCHANGED <<err, result>>
    /\ UNCHANGED <<inputs, aside, scratch, img_size, files, compress_list, idx, built>>

\* a patcher that notes a missing signature and goes on
PatchTemp_warn ==
    /\ pc = "mk_patch"
    /\ \E chromeos, hdrs \in BOOLEAN :
        /\ err' = IF ~chromeos THEN "RuntimeError: expected CHROMEOS"
                  ELSE IF ~hdrs THEN "RuntimeError: expected HdrS"
                  ELSE err
        /\ temp_img' = "patched"
        /\ pc' = "mk_repack"
        /\ UNCHANGED result
    /\ UNCHANGED <<inputs, aside, scratch, img_size, files, compress_list, idx, built, calls>>

\* binary editing of temp_img: CHROMEOS magic, boot params HdrS magic, then
\* the initramfs address and size
PatchTemp ==
    /\ pc = "mk_patch"
    /\ \E chromeos, hdrs \in BOOLEAN :
        IF ~chromeos
        THEN MkRaise("RuntimeError: expected CHROMEOS") /\ UNCHANGED temp_img
        ELSE IF ~hdrs
        THEN MkRaise("RuntimeError: expected HdrS") /\ UNCHANGED temp_img
        ELSE /\ temp_img' = "patched"
             /\ pc' = "mk_repack"
             /\ UNCHANGED <<err, result>>
    /\ UNCHANGED <<inputs, aside, scratch, img_size, files, compress_list, idx, built, calls>>

\* a second pass that packs afresh instead of repacking temp_img
Repack_as_pack ==
    /\ pc = "mk_repack"
    /\ SignTo("pack", "mk_verify")
    /\ UNCHANGED <<inputs, aside, scratch, img_size, temp_img, compress_list, idx, built>>

\* vbutil_kernel --oldblob temp_img --repack self.output
Repack ==
    /\ pc = "mk_repack"
    /\ SignTo("repack", "mk_verify")
    /\ UNCHANGED <<inputs, aside, scratch, img_size, temp_img, compress_list, idx, built>>

\* a verify step whose exit status is not looked at
Verify_unchecked ==
    /\ pc = "mk_verify"
    /\ \E ok \in BOOLEAN :
        /\ calls' = Append(calls, Call("verify", ok))
        /\ files' = [files EXCEPT ![mk_output].verified = ok]
        /\ pc' = "size_check"
        /\ UNCHANGED <<err, result>>
    /\ UNCHANGED <<inputs, aside, scratch, img_size, temp_img, compress_list, idx, built>>

\* vbutil_kernel --verify self.output; return self.output
Verify ==
    /\ pc = "mk_verify"
    /\ \E ok \in BOOLEAN :
        /\ calls' = Append(calls, Call("verify", ok))
        /\ IF tool_raises(ok)
           THEN MkRaise("CalledProcessError: verify") /\ UNCHANGED files
           ELSE /\ files' = [files EXCEPT ![mk_output].verified = TRUE]
                /\ pc' = "size_check"
                /\ UNCHANGED <<err, result>>
    /\ UNCHANGED <<inputs, aside, scratch, img_size, temp_img, compress_list, idx, built>>

\* ------------------------------------------------------------------------
\* back in depthchargectl_build.__call__

\* if outtmp.stat().st_size < self.board.image_max_size: break
small_enough_le(f) == f.size <= board.image_max_size

small_enough(f) == f.size < board.image_max_size

\* a loop without the break: keeps building while candidates remain
SizeCheck_nobreak ==
    /\ pc = "size_check"
    /\ pc' = IF small_enough(outtmp) /\ idx = Len(compress_list)
             THEN "copy" ELSE "loop"
    /\ UNCHANGED <<inputs, aside, scratch, img_size, files, temp_img, compress_list, idx, built,
                   calls, err, result>>

SizeCheck ==
    /\ pc = "size_check"
    /\ pc' = IF small_enough(outtmp) THEN "copy" ELSE "loop"
    /\ UNCHANGED <<inputs, aside, scratch, img_size, files, temp_img, compress_list, idx, built,
                   calls, err, result>>

\* a copy after which the size is looked at again
CopyOut_recheck ==
    /\ pc = "copy"
    /\ files' = [files EXCEPT !["output"] = outtmp]
    /\ pc' = "size_check"
    /\ UNCHANGED <<inputs, aside, scratch, img_size, temp_img, compress_list, idx, built,
                   calls, err, result>>

\* copy(outtmp, self.output); return self.output
CopyOut ==
    /\ pc = "copy"
    /\ files' = [files EXCEPT !["output"] = outtmp]
    /\ pc' = "done"
    /\ result' = Returned
    /\ UNCHANGED <<inputs, aside, scratch, img_size, temp_img, compress_list, idx, built, calls, err>>

Next ==
    \/ PreCheck
    \/ SkipNone
    \/ LoopNext
    \/ ForElse
    \/ MkOptions
    \/ MkGunzip
    \/ MkCompress
    \/ MkImage
    \/ FitPack
    \/ ZimagePack
    \/ PadVmlinuz
    \/ PackTemp
    \/ PatchTemp
    \/ Repack
    \/ Verify
    \/ SizeCheck
    \/ CopyOut

Spec == Init /\ [][Next]_vars

\* depthchargectl build is one sequential thread that runs without waiting
\* for anything but the tools it calls: whenever it has a next step it takes
\* it, a called tool exiting sooner or later.
SpecLive == Init /\ [][Next]_vars /\ WF_vars(Next)

TypeOK ==
    /\ pc \in {"start", "skip_none", "loop", "mk_options", "mk_gunzip",
                "mk_compress", "mk_fit", "mk_fit_pack", "mk_zimage", "mk_pad",
                "mk_pack_temp", "mk_patch", "mk_repack", "mk_verify",
                "size_check", "copy", "done", "off"}
    /\ idx \in 0..Len(compress_list)
    /\ Len(built) = idx

\* the command line of the followed mkdepthcharge run
args == <<argv, vmlinuz_arg, initramfs_arg, dtbs_arg>>

\* raise ValueError(msg) out of an input file argument
MkValueError(msg) ==
    /\ mk_err' = msg
    /\ mk_pc' = "failed"

\* for f in files: read the head, hand a gzip head to gzip, append f to a list
FilesLoop ==
    /\ mk_pc = "files"
    /\ f_idx < Len(argv)
    /\ LET f == argv[f_idx + 1] IN
        /\ sniffed' = append_file(sniffed, f)
        /\ probes' = IF startswith(f.head, GzipMagic)
                     THEN Append(probes, f.name)
                     ELSE probes
    /\ f_idx' = f_idx + 1
    /\ UNCHANGED <<notfiles, args, in_vmlinuz, in_initramfs, in_dtbs, tmpdir,
                   vmlinuz, written, mk_err, mk_pc>>

\* return {"vmlinuz": vmlinuz, "initramfs": initramfs, "dtbs": dtbs}
FilesReturn ==
    /\ mk_pc = "files"
    /\ f_idx = Len(argv)
    /\ mk_pc' = "vmlinuz"
    /\ UNCHANGED <<notfiles, args, f_idx, sniffed, probes, in_vmlinuz,
                   in_initramfs, in_dtbs, tmpdir, vmlinuz, written,
                   mk_err>>

\* a test that lets two candidates through
multiple_gt2(fs) == Len(fs) > 2

\* len(files) > 1
multiple(fs) == Len(fs) > 1

\* files = [Path(vmlinuz).resolve(), *files]
vmlinuz_files == vmlinuz_arg \o sniffed.vmlinuz
initramfs_files == initramfs_arg \o sniffed.initramfs

\* mkdepthcharge.vmlinuz
Vmlinuz ==
    /\ mk_pc = "vmlinuz"
    /\ IF Len(vmlinuz_files) = 0
       THEN MkValueError("vmlinuz argument is required.")
               /\ UNCHANGED in_vmlinuz
       ELSE IF multiple(vmlinuz_files)
       THEN MkValueError("Can't build with multiple kernels")
               /\ UNCHANGED in_vmlinuz
       ELSE /\ in_vmlinuz' = <<vmlinuz_files[1]>>
            /\ mk_pc' = "initramfs"
            /\ UNCHANGED mk_err
    /\ UNCHANGED <<notfiles, args, f_idx, sniffed, probes, in_initramfs,
                   in_dtbs, tmpdir, vmlinuz, written>>

\* mkdepthcharge.initramfs
Initramfs ==
    /\ mk_pc = "initramfs"
    /\ IF multiple(initramfs_files)
       THEN MkValueError("Can't build with multiple initramfs")
               /\ UNCHANGED in_initramfs
       ELSE /\ in_initramfs' = IF initramfs_files # <<>>
                               THEN <<initramfs_files[1]>>
                               ELSE <<>>
            /\ mk_pc' = "dtbs"
            /\ UNCHANGED mk_err
    /\ UNCHANGED <<notfiles, args, f_idx, sniffed, probes, in_vmlinuz,
                   in_dtbs, tmpdir, vmlinuz, written>>

\* mkdepthcharge.dtbs: dtbs = [*dtbs, *files]
Dtbs ==
    /\ mk_pc = "dtbs"
    /\ in_dtbs' = dtbs_arg \o sniffed.dtbs
    /\ mk_pc' = "copy"
    /\ UNCHANGED <<notfiles, args, f_idx, sniffed, probes, in_vmlinuz,
                   in_initramfs, tmpdir, vmlinuz, written, mk_err>>

\* a path: the directory and the file name
Path(dir, name) == [dir |-> dir, name |-> name]

\* the path a caller-supplied file is given by
path_of(f) == Path("input", f.name)

\* copy(src, tmpdir): shutil.copy2 into a directory keeps the file name
copy(src, dir) == Path(dir, src.name)

\* self.name.endswith(".gz")
endswith_gz(name) == name[Len(name)] = ".gz"

\* gunzip: dest = self.parent / self.name[:-3], or self.name + ".gunzip"
gunzip_dest(p) ==
    Path(p.dir, IF endswith_gz(p.name)
                THEN SubSeq(p.name, 1, Len(p.name) - 1)
                ELSE Append(p.name, ".gunzip"))

\* a compressor that works in place
compress_in_place(p, suffix) == p

\* lz4 / lzma: dest = self.parent / (self.name + ".lz4" / ".lzma")
compress_dest(p, suffix) == Path(p.dir, Append(p.name, suffix))

\* is_gzip: gzip --test of the whole file exits with 0
is_gzip(f) == startswith(f.head, GzipMagic) /\ f.gunzipped # <<>>

FileOp(op, src, dest) == [op |-> op, src |-> src, dest |-> dest]

\* the chosen input files in the order __call__ copies them
chosen == in_vmlinuz \o in_initramfs \o in_dtbs

\* vmlinuz = copy(vmlinuz, tmpdir) ... dtbs = [copy(dtb, tmpdir) for dtb in
\* dtbs], then chmod(0o755) on each copy
CopyInputs ==
    /\ mk_pc = "copy"
    /\ vmlinuz' = copy(path_of(in_vmlinuz[1]), "tmpdir")
    /\ tmpdir' = {copy(path_of(f), "tmpdir") : f \in Range(chosen)}
    /\ written' =
           [i \in 1..Len(chosen) |->
                FileOp("copy", path_of(chosen[i]), copy(path_of(chosen[i]), "tmpdir"))]
           \o [i \in 1..Len(chosen) |->
                FileOp("chmod", copy(path_of(chosen[i]), "tmpdir"),
                       copy(path_of(chosen[i]), "tmpdir"))]
    /\ mk_pc' = "gunzip"
    /\ UNCHANGED <<notfiles, args, f_idx, sniffed, probes, in_vmlinuz,
                   in_initramfs, in_dtbs, mk_err>>

\* if is_gzip(vmlinuz): vmlinuz = gunzip(vmlinuz)
GunzipVmlinuz ==
    /\ mk_pc = "gunzip"
    /\ IF is_gzip(in_vmlinuz[1])
       THEN \E ok \in BOOLEAN :
                /\ written' = Append(written,
                                     FileOp("gunzip", vmlinuz, gunzip_dest(vmlinuz)))
                /\ tmpdir' = tmpdir \cup {gunzip_dest(vmlinuz)}
                /\ IF ok
                   THEN /\ vmlinuz' = gunzip_dest(vmlinuz)
                        /\ mk_pc' = "compress"
                        /\ UNCHANGED mk_err
                   ELSE /\ mk_err' = "CalledProcessError: gzip"
                        /\ mk_pc' = "failed"
                        /\ UNCHANGED vmlinuz
       ELSE /\ mk_pc' = "compress"
            /\ UNCHANGED <<written, tmpdir, vmlinuz, mk_err>>
    /\ UNCHANGED <<notfiles, args, f_idx, sniffed, probes, in_vmlinuz,
                   in_initramfs, in_dtbs>>

\* if self.compress == "lz4": vmlinuz = lz4(vmlinuz)
\* elif self.compress == "lzma": vmlinuz = lzma(vmlinuz)
CompressVmlinuz ==
    /\ mk_pc = "compress"
    /\ \E c \in CompressTypes :
        IF c \in {"lz4", "lzma"}
        THEN \E ok \in BOOLEAN :
                LET dest == compress_dest(vmlinuz, "." \o c) IN
                /\ written' = Append(written, FileOp(c, vmlinuz, dest))
                /\ tmpdir' = tmpdir \cup {dest}
                /\ IF ok
                   THEN /\ vmlinuz' = dest
                        /\ mk_pc' = "assemble"
                        /\ UNCHANGED mk_err
                   ELSE /\ mk_err' = "CalledProcessError: " \o c
                        /\ mk_pc' = "failed"
                        /\ UNCHANGED vmlinuz
        ELSE /\ mk_pc' = "assemble"
             /\ UNCHANGED <<written, tmpdir, vmlinuz, mk_err>>
    /\ UNCHANGED <<notfiles, args, f_idx, sniffed, probes, in_vmlinuz,
                   in_initramfs, in_dtbs>>

NextFiles ==
    \/ FilesLoop
    \/ FilesReturn
    \/ Vmlinuz
    \/ Initramfs
    \/ Dtbs
    \/ CopyInputs
    \/ GunzipVmlinuz
    \/ CompressVmlinuz

\* the driver at rest, while an input resolution is followed
DriverIdle ==
    /\ board = [image_format |-> "fit", image_max_size |-> MaxSize,
                boots_lz4_kernel |-> FALSE, boots_lzma_kernel |-> FALSE]
    /\ kernel_size = 1
    /\ kernel_gz = FALSE
    /\ initrd = <<>>
    /\ dtbs = <<>>
    /\ compress_arg = <<>>
    /\ img_size = <<>>
    /\ previous = PrevImage
    /\ files = [output |-> previous, outtmp |-> NoFile]
    /\ temp_img = "absent"
    /\ scratch = {}
    /\ compress_list = <<>>
    /\ idx = 0
    /\ built = <<>>
    /\ calls = <<>>
    /\ err = ""
    /\ pc = "off"
    /\ result = Running

\* the files given with the flags
FlagKernel == File(<<"flag", ".efi">>, MZ \o <<0>>, <<>>, FALSE)
FlagRamdisk == File(<<"flag", ".cpio">>, Cpio070701 \o <<0>>, <<>>, FALSE)

\* any command line of up to MaxArgs positional files
InitFiles ==
    /\ DriverIdle
    /\ PatchIdle
    /\ ArchIdle
    /\ argv \in SeqsUpTo(Catalogue, MaxArgs)
    /\ vmlinuz_arg \in {<<>>, <<FlagKernel>>}
    /\ initramfs_arg \in {<<>>, <<FlagRamdisk>>}
    /\ dtbs_arg = <<>>
    /\ f_idx = 0
    /\ sniffed = NoFiles
    /\ probes = <<>>
    /\ in_vmlinuz = <<>>
    /\ in_initramfs = <<>>
    /\ in_dtbs = <<>>
    /\ tmpdir = {}
    /\ vmlinuz = <<>>
    /\ written = <<>>
    /\ mk_err = ""
    /\ mk_pc = "files"

SpecFiles == InitFiles /\ [][NextFiles]_vars

\* the orders a list of files can be given in
Permuted(fs) ==
    {[i \in 1..Len(fs) |-> fs[p[i]]] : p \in Permutations(1..Len(fs))}

FlagDtb == File(<<"flag", ".dtb">>, FdtMagic \o <<1>>, <<>>, FALSE)

\* a command line of one kernel, one ramdisk and up to MaxBlobs device-tree
\* blobs, all with their magic bytes, in any order
InitPermuted ==
    /\ DriverIdle
    /\ PatchIdle
    /\ ArchIdle
    /\ \E k \in {PeKernel, ElfKernel}, r \in Ramdisks, n \in 0..MaxBlobs :
           argv \in Permuted(<<k, r>> \o [i \in 1..n |-> Dtb(i)])
    /\ vmlinuz_arg = <<>>
    /\ initramfs_arg = <<>>
    /\ dtbs_arg \in {<<>>, <<FlagDtb>>}
    /\ f_idx = 0
    /\ sniffed = NoFiles
    /\ probes = <<>>
    /\ in_vmlinuz = <<>>
    /\ in_initramfs = <<>>
    /\ in_dtbs = <<>>
    /\ tmpdir = {}
    /\ vmlinuz = <<>>
    /\ written = <<>>
    /\ mk_err = ""
    /\ mk_pc = "files"

SpecPermuted == InitPermuted /\ [][NextFiles]_vars

\* ------------------------------------------------------------------------
\* the zimage build with an initramfs, byte by byte

\* def addr_to_offs(addr, load_addr=self.kernel_start): the option is
\* evaluated, for the default of the two translations, before the header of
\* the vmlinuz is read
KernelStartOption ==
    /\ zi_pc = "options"
    /\ LET r == kernel_start(kernel_start_arg) IN
        IF r.raises # ""
        THEN /\ zi_err' = r.raises
             /\ zi_pc' = "failed"
             /\ UNCHANGED self_kernel_start
        ELSE /\ self_kernel_start' = r.returns[1]
             /\ zi_pc' = "header"
             /\ UNCHANGED zi_err
    /\ UNCHANGED <<notpatch, kernel_start_arg, vmlinuz_data, vmlinuz_size,
                   unpadded_size, pad_vmlinuz, pad_to, initramfs_size, placed_at,
                   data, temp_size>>

\* a padding step that resizes to pad_to whatever the size of the file
HeaderAndPad_resize_always ==
    /\ zi_pc = "header"
    /\ IF slice(vmlinuz_data, 514, 518) # HdrS
       THEN /\ zi_err' = "ValueError: not a bzImage"
            /\ zi_pc' = "failed"
            /\ UNCHANGED <<pad_to, vmlinuz_size, vmlinuz_data>>
       ELSE /\ pad_to' = align_up(addr_to_offs(pref_address + init_size, self_kernel_start))
            /\ IF pad_vmlinuz
               THEN /\ vmlinuz_size' = pad_to'
                    /\ vmlinuz_data' = resize(vmlinuz_data, vmlinuz_size, pad_to')
               ELSE UNCHANGED <<vmlinuz_size, vmlinuz_data>>
            /\ zi_pc' = "pack"
            /\ UNCHANGED zi_err
    /\ UNCHANGED <<notpatch, kernel_start_arg, self_kernel_start, unpadded_size,
                   pad_vmlinuz, initramfs_size, placed_at, data, temp_size>>

\* if data[0x202:0x206] != b"HdrS": raise ValueError; unpack pref_address and
\* init_size; pad_to = align_up(addr_to_offs(pref_address + init_size));
\* if self.pad_vmlinuz and pad_to > data.size(): data.resize(pad_to)
HeaderAndPad ==
    /\ zi_pc = "header"
    /\ IF slice(vmlinuz_data, 514, 518) # HdrS
       THEN /\ zi_err' = "ValueError: not a bzImage"
            /\ zi_pc' = "failed"
            /\ UNCHANGED <<pad_to, vmlinuz_size, vmlinuz_data>>
       ELSE /\ pad_to' = align_up(addr_to_offs(pref_address + init_size, self_kernel_start))
            /\ IF pad_vmlinuz /\ pad_to' > vmlinuz_size
               THEN /\ vmlinuz_size' = pad_to'
                    /\ vmlinuz_data' = resize(vmlinuz_data, vmlinuz_size, pad_to')
               ELSE UNCHANGED <<vmlinuz_size, vmlinuz_data>>
            /\ zi_pc' = "pack"
            /\ UNCHANGED zi_err
    /\ UNCHANGED <<notpatch, kernel_start_arg, self_kernel_start, unpadded_size,
                   pad_vmlinuz, initramfs_size, placed_at, data, temp_size>>

\* the keyblock sizes of the followed containers
KeyblockSizes == {1208, 2232}

\* the file offsets the signer may put the initramfs at
Places == {SetupSize + PageSize * k : k \in 1..(MaxPages + 1)}

\* vbutil_kernel --vmlinuz vmlinuz --bootloader initramfs --pack temp_img
FirstPass ==
    /\ zi_pc = "pack"
    /\ \E magic \in {CHROMEOS, [i \in 1..8 |-> 0]}, kb_size \in KeyblockSizes,
          at \in Places, sig \in {HdrS, <<0, 0, 0, 0>>} :
        /\ data' = TempImg(magic, kb_size, at, sig)
        /\ placed_at' = at
        /\ temp_size' = at + align_up(initramfs_size)
    /\ zi_pc' = "patch"
    /\ UNCHANGED <<notpatch, kernel_start_arg, self_kernel_start, vmlinuz_data,
                   vmlinuz_size, unpadded_size, pad_vmlinuz, pad_to,
                   initramfs_size, zi_err>>

\* the binary editing of temp_img
PatchParams ==
    /\ zi_pc = "patch"
    /\ IF slice(data, 0, 8) # CHROMEOS
       THEN /\ zi_err' = "RuntimeError: expected CHROMEOS"
            /\ zi_pc' = "failed"
            /\ UNCHANGED data
       ELSE IF slice(data, params_offset + 514, params_offset + 518) # HdrS
       THEN /\ zi_err' = "RuntimeError: expected HdrS"
            /\ zi_pc' = "failed"
            /\ UNCHANGED data
       ELSE /\ data' = patch(data, params_offset, initramfs_addr, initramfs_size)
            /\ zi_pc' = "repack"
            /\ UNCHANGED zi_err
    /\ UNCHANGED <<notpatch, kernel_start_arg, self_kernel_start, vmlinuz_data,
                   vmlinuz_size, unpadded_size, pad_vmlinuz, pad_to,
                   initramfs_size, placed_at, temp_size>>

NextPatch ==
    \/ KernelStartOption
    \/ HeaderAndPad
    \/ FirstPass
    \/ PatchParams

\* the addresses given with --kernel-start
KernelStartArgs == {2 * KernelStart}

\* the ramdisk sizes followed
RamdiskSizes == {0, 1, 4095, 4096, 1048576}

\* a scratch vmlinuz with any of the followed headers and sizes, whose last
\* byte is followed too, and an initramfs
InitPatch ==
    /\ DriverIdle
    /\ FilesIdle
    /\ ArchIdle
    /\ kernel_start_arg \in {<<>>} \cup {<<a>> : a \in KernelStartArgs}
    /\ self_kernel_start = 0
    /\ \E sig \in {HdrS, <<0, 0, 0, 0>>},
          pref \in {KernelStart, 16 * KernelStart},
          init \in {PageSize * k + d : k \in 0..MaxPages, d \in {0, 1}},
          size \in {SetupSize + PageSize * k + d : k \in 0..MaxPages, d \in {0, 1}} :
        /\ vmlinuz_data = VmlinuzHeader(sig, pref, init) @@ Bytes(size - 1, <<144>>)
        /\ vmlinuz_size = size
    /\ unpadded_size = vmlinuz_size
    /\ pad_vmlinuz \in BOOLEAN
    /\ pad_to = 0
    /\ initramfs_size \in RamdiskSizes
    /\ placed_at = 0
    /\ data = <<>>
    /\ temp_size = 0
    /\ zi_err = ""
    /\ zi_pc = "options"

SpecPatch == InitPatch /\ [][NextPatch]_vars

\* ------------------------------------------------------------------------
\* comparisons of architecture values

\* self == other
ArchEq ==
    /\ eq_result = <<>>
    /\ eq_result' = <<Architecture_eq(arch_self, arch_other)>>
    /\ UNCHANGED <<notarch, arch_self, arch_other, ne_result>>

\* self != other
ArchNe ==
    /\ ne_result = <<>>
    /\ ne_result' = <<Architecture_ne(arch_self, arch_other)>>
    /\ UNCHANGED <<notarch, arch_self, arch_other, eq_result>>

NextArch ==
    \/ ArchEq
    \/ ArchNe

\* a machine name that is in no group
UnknownArch == "riscv64"

\* any Architecture compared with any Architecture or plain string
InitArch ==
    /\ DriverIdle
    /\ FilesIdle
    /\ PatchIdle
    /\ arch_self \in {Architecture(s) : s \in Range(all) \cup {UnknownArch}}
    /\ arch_other \in {Architecture(s) : s \in Range(all) \cup {UnknownArch}}
                      \cup {Str(s) : s \in Range(all) \cup {UnknownArch}}
    /\ eq_result = <<>>
    /\ ne_result = <<>>

SpecArch == InitArch /\ [][NextArch]_vars

\* ------------------------------------------------------------------------
\* Properties

\* what the driver's candidate list is after the `none` candidate was
\* considered for skipping
PastSkipNone == pc \notin {"start", "skip_none"} /\ ~initramfs_too_big

\* C1: when depthchargectl build returns, the file at the output path is
\* the image built for a candidate and its size is strictly below
\* board.image_max_size; no image of size >= the maximum is ever copied to
\* the output path.
C1_OutputBelowMax ==
    /\ result = Returned =>
           /\ output.by \in Range(built)
           /\ output.size = img_size[output.by]
           /\ output.size < board.image_max_size
    /\ output # previous => output.size < board.image_max_size

\* C1 witness: a successful run whose first candidate was exactly at the
\* maximum and was rejected
C1_Witness ==
    /\ result = Returned
    /\ Len(built) = 2
    /\ img_size[built[1]] = board.image_max_size

\* C2: candidates are built in the order of the priority list, the selected
\* one is the first whose image is below the maximum (every candidate before
\* it was built and was too big) and nothing after it is built; with
\* none too big, lz4 fitting and lzma smaller still, the output is lz4.
C2_FirstFitInOrder ==
    /\ PastSkipNone => built = SubSeq(compress_list, 1, Len(built))
    /\ result = Returned =>
           /\ output.by = built[Len(built)]
           /\ \A j \in 1..(Len(built) - 1) :
                  img_size[compress_list[j]] >= board.image_max_size
           /\ img_size[output.by] < board.image_max_size
    /\ ( /\ result = Returned
         /\ compress_list = <<"none", "lz4", "lzma">>
         /\ img_size["none"] >= board.image_max_size
         /\ img_size["lz4"] < board.image_max_size
         /\ img_size["lzma"] < img_size["lz4"] )
       => (output.by = "lz4" /\ built = <<"none", "lz4">>)

\* C2 witness: lz4 was selected although lzma would have been smaller
C2_Witness ==
    /\ result = Returned
    /\ compress_list = <<"none", "lz4", "lzma">>
    /\ output.by = "lz4"
    /\ img_size["lzma"] < img_size["lz4"]

\* C3: a ramdisk at or above board.image_max_size ends the run with
\* InitramfsSizeTooBigError before mkdepthcharge or any external tool is
\* invoked, and the output path is untouched.
C3_RamdiskPreCheck ==
    initrd_size >= board.image_max_size =>
        /\ pc \in {"start", "done"}
        /\ pc = "done" => result = InitramfsSizeTooBigError
        /\ calls = <<>>
        /\ built = <<>>
        /\ files = [output |-> previous, outtmp |-> NoFile]

\* C3 witness: the pre-check has failed a run whose ramdisk equals the maximum
C3_Witness ==
    /\ pc = "done"
    /\ initrd_size = board.image_max_size
    /\ result = InitramfsSizeTooBigError

\* C4: in a run that has not returned successfully the output path holds
\* what it held when the run started: candidates are built at outtmp and the
\* output path is written only by the copy after a small enough build.
C4_OutputKeptOnFailure ==
    /\ result # Returned => output = previous
    /\ output # previous => (pc = "done" /\ result = Returned /\ output = outtmp)

\* C4 witness: a failed run that had an image at outtmp and a previous image
\* at the output path
C4_Witness ==
    /\ pc = "done"
    /\ result \notin {Returned, Running}
    /\ previous = PrevImage
    /\ outtmp.complete

\* an external tool invocation that exited with a nonzero status
FailedCall(i) == ~calls[i].ok

\* the invocations of the packer (mkimage) and of the signer (vbutil_kernel)
PackerOrSigner == {"mkimage", "pack", "pack-temp", "repack", "verify"}

\* C5 (as claimed): after a tool failure the driver goes on with the next
\* candidate, so a build-failure exit caused by a tool happens only once
\* every candidate of the list has been taken.
C5_ToolFailureMovesOn ==
    ( /\ result = BuildFailed
      /\ \E i \in 1..Len(calls) :
             FailedCall(i) /\ calls[i].tool \in PackerOrSigner )
        => built = compress_list

\* C5 (amended): the first tool failure ends the whole run: it is the last
\* tool call ever made, the run ends with the build-failure CommandExit, no
\* candidate is taken after the failing one, and the output path is as it
\* was.
C5_ToolFailureEndsRun ==
    \A i \in 1..Len(calls) :
        FailedCall(i) =>
            /\ i = Len(calls)
            /\ pc = "done"
            /\ result = BuildFailed
            /\ calls[i].compress = built[Len(built)]
            /\ output = previous

\* C5 witness: a tool failed while candidates were still left in the list
C5_Witness ==
    /\ result = BuildFailed
    /\ calls # <<>>
    /\ FailedCall(Len(calls))
    /\ calls[Len(calls)].tool \in PackerOrSigner
    /\ Len(built) < Len(compress_list)

\* every candidate was built and verified, and every image is at or above
\* the maximum
AllBuiltTooBig ==
    /\ pc = "done"
    /\ err = ""
    /\ compress_list # <<>>
    /\ built = compress_list
    /\ \A c \in Range(compress_list) : img_size[c] >= board.image_max_size

\* C6: when every candidate was built and every image is at or above the
\* maximum, the run fails and the output path is untouched; the error is
\* InitramfsSizeTooBigError (3) iff there is a ramdisk and SizeTooBigError
\* (4) iff there is none.
C6_AllTooBig ==
    AllBuiltTooBig =>
        /\ output = previous
        /\ result \in {SizeTooBigError, InitramfsSizeTooBigError}
        /\ (result = InitramfsSizeTooBigError) <=> (initrd # <<>>)
        /\ (result = SizeTooBigError) <=> (initrd = <<>>)
        /\ returncode[result] = IF initrd # <<>> THEN 3 ELSE 4

\* C6 witness: two candidates built, both too big, with a ramdisk
C6_Witness ==
    /\ AllBuiltTooBig
    /\ Len(built) = 2
    /\ initrd # <<>>

NotNone(c) == c # "none"

\* C7: once the loop is reached, the candidate list is the list of
\* depthchargectl_build.compress without `none` if kernel + ramdisk + dtbs
\* exceed the maximum (and then no build or tool call is made for `none`),
\* and is that list unchanged otherwise.
C7_SkipNone ==
    PastSkipNone =>
        IF inputs_size > board.image_max_size
        THEN /\ compress_list = SelectSeq(compress(board, compress_arg), NotNone)
             /\ "none" \notin Range(built)
             /\ \A i \in 1..Len(calls) : calls[i].compress # "none"
        ELSE compress_list = compress(board, compress_arg)

\* C7 witness: `none` was dropped from a list that had it and another
\* candidate was built
C7_Witness ==
    /\ pc = "done"
    /\ inputs_size > board.image_max_size
    /\ "none" \in Range(compress(board, compress_arg))
    /\ Len(built) >= 1

\* the elements of s in the order of their first occurrence
FirstOccurrences(s) ==
    LET F[i \in 0..Len(s)] ==
            IF i = 0 THEN <<>>
            ELSE IF \E j \in 1..(i - 1) : s[j] = s[i] THEN F[i - 1]
            ELSE Append(F[i - 1], s[i])
    IN  F[Len(s)]

\* C8: without --compress the candidate list is none, then lz4 iff the
\* board boots lz4, then lzma iff the board boots lzma on fit boards, and
\* just none on zimage boards; with --compress it is the arguments without
\* their repetitions, in order of first occurrence.
C8_CandidateList ==
    LET L == compress(board, compress_arg)
        n == 1 + (IF board.boots_lz4_kernel THEN 1 ELSE 0)
               + (IF board.boots_lzma_kernel THEN 1 ELSE 0)
    IN  IF compress_arg = <<>>
        THEN IF board.image_format = "zimage"
             THEN L = <<"none">>
             ELSE /\ L[1] = "none"
                  /\ Len(L) = n
                  /\ ("lz4" \in Range(L)) <=> board.boots_lz4_kernel
                  /\ ("lzma" \in Range(L)) <=> board.boots_lzma_kernel
                  /\ L[Len(L)] = "lz4" => ~board.boots_lzma_kernel
        ELSE L = FirstOccurrences(compress_arg)

\* C8 witness: a zimage board that boots lz4 and lzma got the list [none]
C8_Witness ==
    /\ pc = "loop"
    /\ board.image_format = "zimage"
    /\ board.boots_lz4_kernel
    /\ board.boots_lzma_kernel
    /\ compress_arg = <<>>
    /\ compress_list = <<"none">>

\* mkdepthcharge has returned its output path to the driver
MkReturned ==
    \/ pc \in {"size_check", "copy"}
    \/ pc = "loop" /\ idx > 0
    \/ pc = "done" /\ err = "" /\ built # <<>>

\* C9: mkdepthcharge returns only after the signer's verify mode ran on its
\* output and exited with zero; a failed verify ends the run, and nothing
\* unverified is size-checked or copied to the output path.
C9_ReturnedOnlyVerified ==
    /\ MkReturned =>
           /\ outtmp.verified
           /\ outtmp.complete
           /\ outtmp.by = cur
           /\ \E i \in 1..Len(calls) :
                  /\ calls[i] = Call("verify", TRUE)
                  /\ \A j \in (i + 1)..Len(calls) : calls[j].compress # cur
    /\ \A i \in 1..Len(calls) :
           (calls[i].tool = "verify" /\ ~calls[i].ok) =>
               (i = Len(calls) /\ pc = "done" /\ result = BuildFailed)
    /\ output # previous => output.verified

\* C9 witness: mkdepthcharge returned for the second candidate
C9_Witness ==
    /\ pc = "size_check"
    /\ Len(built) = 2
    /\ outtmp.verified

\* the mkdepthcharge run for the current candidate is over
MkOver == built # <<>> /\ (MkReturned \/ pc = "done")

\* the final signer invocation itself failed: what is at the output path
\* then is the signer's doing
SignerFailed == err \in {"CalledProcessError: pack", "CalledProcessError: repack"}

\* C10 (as claimed): after a mkdepthcharge run its output path holds a
\* complete image that passed verification or no file of that run; in
\* particular a failed verify leaves no unverified image there.
C10_VerifiedOrNothing ==
    (MkOver /\ ~SignerFailed) =>
        (outtmp.complete /\ outtmp.verified) \/ outtmp.by # cur

\* C10 (amended): after a run that returned, the output path holds the
\* complete verified image of that run; after a failure before the final
\* signer invocation it holds nothing of that run; after a failed verify it
\* still holds the complete, unverified image the signer wrote, and after a
\* failed final signer invocation whatever that left is never verified.
C10_VerifiedOrLeftInPlace ==
    MkOver =>
        CASE err = "" ->
                outtmp = [Image(cur, img_size[cur]) EXCEPT !.verified = TRUE]
          [] err = "CalledProcessError: verify" ->
                outtmp = Image(cur, img_size[cur])
          [] SignerFailed ->
                outtmp.by = cur => (~outtmp.verified /\ ~outtmp.complete)
          [] OTHER ->
                outtmp.by # cur

\* C10 witness: verify failed and the image is still at the output path
C10_Witness ==
    /\ pc = "done"
    /\ err = "CalledProcessError: verify"
    /\ outtmp.by = cur
    /\ outtmp.complete

\* ------------------------------------------------------------------------
\* Properties of the input resolution

\* the candidates for a role: the file given with the flag, then the
\* positional files classified into the role
kernel_candidates == vmlinuz_arg \o files_of(argv).vmlinuz
ramdisk_candidates == initramfs_arg \o files_of(argv).initramfs

InvalidInput ==
    \/ Len(kernel_candidates) = 0
    \/ Len(kernel_candidates) > 1
    \/ Len(ramdisk_candidates) > 1

\* the errors of mkdepthcharge.vmlinuz and mkdepthcharge.initramfs
ValueErrors ==
    {"vmlinuz argument is required.", "Can't build with multiple kernels",
     "Can't build with multiple initramfs"}

\* self.vmlinuz and self.initramfs were both evaluated, or one of them raised
ResolutionOver == mk_pc \notin {"off", "files", "vmlinuz", "initramfs"}

C12_RoleBySignature ==
    mk_pc # "off" =>
        /\ sniffed = files_of(SubSeq(argv, 1, f_idx))
        /\ \A i \in 1..f_idx :
            LET f == argv[i]
                head == sniff(f)
                before == files_of(SubSeq(argv, 1, i - 1))
                by == IF startswith(head, MZ) \/ startswith(head, ElfIdent)
                      THEN "vmlinuz"
                      ELSE IF is_cpio(head) THEN "initramfs"
                      ELSE IF startswith(head, FdtMagic) THEN "dtbs"
                      ELSE IF Len(before.vmlinuz) = 0 THEN "vmlinuz"
                      ELSE IF Len(before.initramfs) = 0 THEN "initramfs"
                      ELSE "dtbs"
            IN  files_of(SubSeq(argv, 1, i)) = [before EXCEPT ![by] = Append(@, f)]

\* the InputSet a command line resolves to
input_set(fs) ==
    [vmlinuz |-> vmlinuz_arg \o files_of(fs).vmlinuz,
     initramfs |-> initramfs_arg \o files_of(fs).initramfs,
     dtbs |-> dtbs_arg \o files_of(fs).dtbs]

is_dtb(f) == startswith(f.head, FdtMagic)

\* C13 as stated: for one kernel, one ramdisk and N device-tree blobs with
\* their magic bytes, every order of the arguments resolves to the same
\* kernel, ramdisk and list of device-tree blobs.
C13_SameInputSetAnyOrder ==
    mk_pc \in {"copy", "gunzip"} =>
        \A q \in Permuted(argv) :
            input_set(q) = [vmlinuz |-> in_vmlinuz,
                            initramfs |-> in_initramfs,
                            dtbs |-> in_dtbs]

\* C13, amended: every order of the arguments resolves to the same kernel,
\* the same ramdisk and the same device-tree blobs; the blobs are listed in
\* the order of their arguments, after those given with --dtbs.
C13_SameFilesAnyOrder ==
    mk_pc \in {"copy", "gunzip"} =>
        /\ in_dtbs = dtbs_arg \o SelectSeq(argv, is_dtb)
        /\ \A q \in Permuted(argv) :
               /\ input_set(q).vmlinuz = in_vmlinuz
               /\ input_set(q).initramfs = in_initramfs
               /\ Range(input_set(q).dtbs) = Range(in_dtbs)
               /\ Len(input_set(q).dtbs) = Len(in_dtbs)

\* two blobs given before the ramdisk and the kernel
C13_Witness ==
    /\ mk_pc = "gunzip"
    /\ Len(argv) = 4
    /\ is_dtb(argv[1])
    /\ is_dtb(argv[2])
    /\ Len(in_vmlinuz) = 1
    /\ Len(in_initramfs) = 1
    /\ Len(sniffed.dtbs) = 2

\* C14: every positional file that is a kernel with PE/ELF magic, gzip
\* compressed or not, is classified as kernel, whether gzip ends on the
\* prefix with a truncated-stream error or completes, and wherever the file
\* stands in the argument list.
C14_GzipKernelIsKernel ==
    \A i \in 1..f_idx :
        LET f == argv[i]
            content == IF startswith(f.head, GzipMagic) THEN f.gunzipped
                       ELSE f.head
        IN  startswith(content, MZ) \/ startswith(content, ElfIdent)
                => f \in Range(sniffed.vmlinuz)

\* the paths the caller gave
Originals ==
    {path_of(f) : f \in Range(argv) \cup Range(vmlinuz_arg)
                        \cup Range(initramfs_arg) \cup Range(dtbs_arg)}

\* the scratch copy of the kernel and what gunzip makes of it
kernel_copies ==
    {copy(path_of(f), "tmpdir") : f \in Range(in_vmlinuz)}
    \cup {gunzip_dest(copy(path_of(f), "tmpdir")) : f \in Range(in_vmlinuz)}

SignatureErrors ==
    {"ValueError: not a bzImage", "RuntimeError: expected CHROMEOS",
     "RuntimeError: expected HdrS"}

\* the tools that were run, in order
tools_run == [i \in 1..Len(calls) |-> calls[i].tool]

\* C16: in the zimage build with a ramdisk a signature mismatch at any of
\* the three checks (HdrS in the kernel, CHROMEOS at the start of the first
\* pass's container, HdrS in its boot params) ends the build: the repack is
\* never run and nothing is written at the output path; a kernel without
\* HdrS ends it before any signer invocation.
C16_SignatureMismatchFatal ==
    err \in SignatureErrors =>
        /\ pc = "done"
        /\ result = BuildFailed
        /\ "repack" \notin Range(tools_run)
        /\ "verify" \notin Range(tools_run)
        /\ files[mk_output] = NoFile
        /\ output = previous
        /\ err = "ValueError: not a bzImage" =>
               Range(tools_run) \cap {"pack", "pack-temp", "repack", "verify"} = {}
        /\ err # "ValueError: not a bzImage" =>
               tools_run[Len(tools_run)] = "pack-temp"

\* the first pass succeeded and its boot params lack HdrS
C16_Witness ==
    /\ err = "RuntimeError: expected HdrS"
    /\ temp_img = "packed"
    /\ result = BuildFailed
    /\ \E i \in 1..Len(calls) : calls[i].tool = "pack-temp" /\ calls[i].ok

\* ------------------------------------------------------------------------
\* Properties of the byte-level zimage build

\* pad_to was computed
Padded == zi_pc \in {"pack", "patch", "repack"} \/ data # <<>>

\* C17 as stated: for every header with the HdrS signature and every
\* unpadded file size, the computed padding size is a multiple of 4096 and
\* is at least the unpadded file size.
C17_PadToCoversFile ==
    Padded =>
        /\ pad_to % PageSize = 0
        /\ pad_to >= unpadded_size

\* C17, amended: the computed padding size is the smallest multiple of 4096
\* that is at least the file offset of pref_address + init_size; the file
\* is never made smaller than it was.
C17_PadToCoversInit ==
    Padded =>
        /\ pad_to % PageSize = 0
        /\ pad_to >= addr_to_offs(pref_address + init_size, self_kernel_start)
        /\ pad_to - addr_to_offs(pref_address + init_size, self_kernel_start) < PageSize
        /\ vmlinuz_size >= unpadded_size

\* an init_size that is not a multiple of the page size, padded
C17_Witness ==
    /\ zi_pc = "pack"
    /\ init_size % PageSize # 0
    /\ pad_to > unpadded_size
    /\ vmlinuz_size = pad_to

\* C18: after the patch the little-endian 4-byte fields at offsets 0x218
\* and 0x21c of the boot params (the page before the initramfs) hold the
\* memory address of the file offset the signer put the initramfs at and
\* the size of the initramfs, for every size in {0, 1, 4095, 4096, 1048576}.
C18_PatchReadsBack ==
    zi_pc = "repack" =>
        LET p == placed_at - PageSize IN
        /\ unpack_le(slice(data, p + 536, p + 540))
               = offs_to_addr(placed_at, self_kernel_start)
        /\ unpack_le(slice(data, p + 540, p + 544)) = initramfs_size

\* a one-megabyte initramfs placed further than the first page of the body
C18_Witness ==
    /\ zi_pc = "repack"
    /\ initramfs_size = 1048576
    /\ placed_at > SetupSize + PageSize
    /\ keyblock_size = 2232

\* ------------------------------------------------------------------------
\* Properties of the zimage build with an initramfs

\* the vbutil_kernel invocations made for the current candidate, in order
signer_run ==
    LET mine == SelectSeq(calls, LAMBDA c :
                    /\ c.compress = cur
                    /\ c.tool \in {"pack", "pack-temp", "repack", "verify"})
    IN  [i \in 1..Len(mine) |-> mine[i].tool]

\* mkdepthcharge was invoked for a zimage with an initramfs and got past its
\* options (it raises there for a compression other than none)
InZimageRamdisk == idx >= 1 /\ build_path = "mk_pad" /\ cur = "none"

\* what a vbutil_kernel invocation is given as bootloader and what it writes
signer_args ==
    [t \in {"pack", "pack-temp", "repack", "verify"} |->
        CASE t = "pack" -> [bootloader |-> "empty.bin", writes |-> "output"]
          [] t = "pack-temp" -> [bootloader |-> "initramfs", writes |-> "temp.img"]
          [] t = "repack" -> [bootloader |-> "oldblob", writes |-> "output"]
          [] t = "verify" -> [bootloader |-> "oldblob", writes |-> "nothing"]]

\* C19: in the zimage build with an initramfs the steps come in this order:
\* header validation and padding, first signing pass to temp.img with the
\* initramfs as bootloader, patch of temp.img, repack of the patched
\* temp.img to the output, verify of the output; the output path is
\* written by the repack only.
C19_ZimageRamdiskOrder ==
    InZimageRamdisk =>
        /\ \E n \in 0..3 : signer_run = SubSeq(<<"pack-temp", "repack", "verify">>, 1, n)
        /\ \A i \in 1..Len(signer_run) :
               /\ i = 1 => signer_args[signer_run[i]] =
                               [bootloader |-> "initramfs", writes |-> "temp.img"]
               /\ signer_args[signer_run[i]].writes = "output" => signer_run[i] = "repack"
        /\ pc \in {"mk_pad", "mk_pack_temp"} => signer_run = <<>> /\ temp_img = "absent"
        /\ pc = "mk_patch" => signer_run = <<"pack-temp">> /\ temp_img = "packed"
        /\ pc = "mk_repack" => signer_run = <<"pack-temp">> /\ temp_img = "patched"
        /\ "repack" \in Range(signer_run) => temp_img = "patched"
        /\ files[mk_output] # NoFile => "repack" \in Range(signer_run)
        /\ pc = "mk_verify" => signer_run = <<"pack-temp", "repack">>
        /\ result = Returned => signer_run = <<"pack-temp", "repack", "verify">>

\* the whole sequence was run and the image returned
C19_Witness ==
    /\ InZimageRamdisk
    /\ result = Returned
    /\ temp_img = "patched"
    /\ signer_run = <<"pack-temp", "repack", "verify">>

\* the signing operations: vbutil_kernel --pack and --repack
Signing == {"pack", "pack-temp", "repack"}

\* C20 as stated: every signing operation that succeeded, the first pass to
\* temp.img included, is followed at once by a verify of what it wrote, and
\* a failed verify ends the build.
C20_VerifyAfterEverySigning ==
    /\ \A i \in 1..(Len(calls) - 1) :
           calls[i].tool \in Signing /\ calls[i].ok => calls[i + 1].tool = "verify"
    /\ \A i \in 1..Len(calls) :
           calls[i].tool = "verify" /\ ~calls[i].ok =>
               i = Len(calls) /\ result = BuildFailed

\* C20, amended: verify is run once for a build, on the output path, right
\* after the signing operation that wrote the output path (pack, or repack
\* in the zimage build with an initramfs); the first pass to temp.img is
\* followed by the patch and the repack, not by a verify; a failed verify
\* ends the build and no image is size-checked without a verify.
C20_VerifyAfterOutputSigning ==
    /\ \A i \in 1..(Len(calls) - 1) :
           /\ calls[i].tool \in {"pack", "repack"} /\ calls[i].ok
                  => calls[i + 1].tool = "verify"
           /\ calls[i].tool = "pack-temp" => calls[i + 1].tool = "repack"
    /\ \A i \in 1..Len(calls) :
           calls[i].tool = "verify" =>
               /\ i > 1
               /\ calls[i - 1].tool \in {"pack", "repack"}
               /\ signer_args[calls[i - 1].tool].writes = "output"
               /\ calls[i - 1].ok
               /\ ~calls[i].ok => i = Len(calls) /\ result = BuildFailed
    /\ pc = "size_check" =>
           calls[Len(calls)].tool = "verify" /\ calls[Len(calls)].ok

\* the repacked image of a zimage build with an initramfs failed its verify
C20_Witness ==
    /\ InZimageRamdisk
    /\ signer_run = <<"pack-temp", "repack", "verify">>
    /\ err = "CalledProcessError: verify"
    /\ result = BuildFailed

\* ------------------------------------------------------------------------
\* Properties of the choice of the build path

\* the packer and signer invocations made for candidate c, in order
build_tools(c) ==
    LET mine == SelectSeq(calls, LAMBDA k :
                    k.compress = c /\ k.tool \in PackerOrSigner)
    IN  [i \in 1..Len(mine) |-> mine[i].tool]

\* the packer and signer invocations of each build path when it runs to its end
path_tools ==
    [p \in {"mk_fit", "mk_zimage", "mk_pad"} |->
        CASE p = "mk_fit" -> <<"mkimage", "pack", "verify">>
          [] p = "mk_zimage" -> <<"pack", "verify">>
          [] p = "mk_pad" -> <<"pack-temp", "repack", "verify">>]

\* the positions of __call__ inside each build path
path_pcs ==
    [p \in {"mk_fit", "mk_zimage", "mk_pad"} |->
        CASE p = "mk_fit" -> {"mk_fit", "mk_fit_pack"}
          [] p = "mk_zimage" -> {"mk_zimage"}
          [] p = "mk_pad" -> {"mk_pad", "mk_pack_temp", "mk_patch", "mk_repack"}]

\* C21: every mkdepthcharge invocation runs one build path, chosen by image
\* format and ramdisk: fit runs mkimage and then one signer pack; zimage
\* without a ramdisk runs one signer pack and no mkimage; zimage with a
\* ramdisk runs the patcher (header check, pack to temp.img, patch, repack).
\* mkimage is invoked only for fit and the patcher only for zimage with a
\* ramdisk, and an invocation that returns has run the whole of its path.
C21_OneBuildPath ==
    /\ \A c \in Range(built) :
           \E n \in 0..3 : build_tools(c) = SubSeq(path_tools[build_path], 1, n)
    /\ \A p \in DOMAIN path_pcs : pc \in path_pcs[p] => build_path = p
    /\ \A i \in 1..Len(calls) :
           /\ calls[i].tool = "mkimage" => board.image_format = "fit"
           /\ calls[i].tool \in {"pack-temp", "repack"} =>
                  (board.image_format = "zimage" /\ initrd # <<>>)
           /\ calls[i].tool = "pack" =>
                  (board.image_format = "fit" \/ initrd = <<>>)
    /\ temp_img # "absent" => (board.image_format = "zimage" /\ initrd # <<>>)
    /\ MkReturned => build_tools(cur) = path_tools[build_path]
    /\ \A j \in 1..(idx - 1) : build_tools(compress_list[j]) = path_tools[build_path]

\* a fit build with a ramdisk returned its second candidate
C21_Witness ==
    /\ result = Returned
    /\ board.image_format = "fit"
    /\ initrd # <<>>
    /\ Len(built) = 2
    /\ build_tools(built[1]) = <<"mkimage", "pack", "verify">>
    /\ build_tools(built[2]) = <<"mkimage", "pack", "verify">>

\* ------------------------------------------------------------------------
\* Properties of the padding and of the patch as steps

\* C22: with padding not disabled, the step that validates the header and
\* pads leaves the scratch vmlinuz with size max(size before, pad_to): every
\* byte it had is kept at its offset with its value, the bytes added are
\* zero and lie after the old end, and the first signing pass is handed the
\* file as that step left it.
C22_PaddedToMax ==
    [][ /\ (zi_pc = "header" /\ zi_pc' = "pack" /\ pad_vmlinuz) =>
               /\ vmlinuz_size' = IF pad_to' > vmlinuz_size THEN pad_to'
                                  ELSE vmlinuz_size
               /\ vmlinuz_size' >= vmlinuz_size
               /\ \A o \in DOMAIN vmlinuz_data :
                      o \in DOMAIN vmlinuz_data' /\ vmlinuz_data'[o] = vmlinuz_data[o]
               /\ \A o \in DOMAIN vmlinuz_data' \ DOMAIN vmlinuz_data :
                      /\ o >= vmlinuz_size
                      /\ o < vmlinuz_size'
                      /\ vmlinuz_data'[o] = 0
               /\ pad_to' > vmlinuz_size =>
                      {vmlinuz_size, pad_to' - 1} \subseteq DOMAIN vmlinuz_data'
        /\ zi_pc = "pack" => UNCHANGED <<vmlinuz_size, vmlinuz_data>>
      ]_vars

\* a file that ended one byte into a page was extended with zero bytes and
\* handed to the first pass
C22_Witness ==
    /\ zi_pc = "patch"
    /\ pad_vmlinuz
    /\ unpadded_size % PageSize = 1
    /\ vmlinuz_size = pad_to
    /\ vmlinuz_size > unpadded_size
    /\ vmlinuz_data[unpadded_size - 1] = 144
    /\ vmlinuz_data[unpadded_size] = 0
    /\ vmlinuz_data[vmlinuz_size - 1] = 0

\* ------------------------------------------------------------------------
\* Properties of the scratch directories

\* the candidates taken before the current one
earlier == {built[j] : j \in 1..(idx - 1)}

\* the build of a candidate after the first has been started
NextBuildStarted == idx >= 2 /\ pc = "mk_options"

\* C23 as stated: when the build of the next candidate starts nothing an
\* earlier attempt wrote is left: its scratch directory is gone and so is
\* the image it built.
C23_ScratchRemoved ==
    NextBuildStarted =>
        /\ scratch \cap {tmpdir_of(c) : c \in earlier} = {}
        /\ outtmp.by \notin earlier

\* C23, amended: every attempt has a scratch directory of its own, named
\* after its compression (the candidates are distinct); the loop removes
\* nothing: the directories of all earlier attempts are still there while a
\* later candidate is built and when the driver ends, and outtmp, which the
\* attempts share, holds the verified but too big image of the attempt
\* before until the signer of the current attempt writes over it.
C23_ScratchKept ==
    /\ scratch \subseteq {tmpdir_of(c) : c \in Range(built)}
    /\ \A i, j \in 1..Len(built) : built[i] = built[j] => i = j
    /\ \A c \in earlier : tmpdir_of(c) \in scratch
    /\ pc \in {"mk_compress", "mk_fit", "mk_fit_pack", "mk_zimage", "mk_pad",
               "mk_pack_temp", "mk_patch", "mk_repack", "mk_verify",
               "size_check", "copy"} => tmpdir_of(cur) \in scratch
    /\ (idx >= 2 /\ pc \in {"mk_options", "mk_gunzip", "mk_compress", "mk_fit"}) =>
           /\ outtmp = [Image(built[idx - 1], img_size[built[idx - 1]])
                            EXCEPT !.verified = TRUE]
           /\ outtmp.size >= board.image_max_size

\* the second candidate is about to be built next to the directory and the
\* too big image of the first
C23_Witness ==
    /\ NextBuildStarted
    /\ tmpdir_of(built[1]) \in scratch
    /\ outtmp.by = built[1]
    /\ outtmp.size >= board.image_max_size

\* ------------------------------------------------------------------------
\* Properties of the comparison of architectures

\* the operands are both Architecture values with known names
KnownPair ==
    /\ isinstance(arch_other)
    /\ arch_self.str \in Range(all)
    /\ arch_other.str \in Range(all)

\* the class (ARM or x86) of a known name
class_of(v) == IF in_group(v, arm) THEN "ARM" ELSE "x86"

\* the group of a known name
group_of(v) ==
    IF in_group(v, arm_32) THEN "arm_32"
    ELSE IF in_group(v, arm_64) THEN "arm_64"
    ELSE IF in_group(v, x86_32) THEN "x86_32"
    ELSE "x86_64"

\* C24 as stated: two Architecture values with known names compare equal
\* exactly when they are of the same class, ARM or x86 (so arm == aarch64).
C24_EqualByClass ==
    (KnownPair /\ eq_result # <<>>) =>
        (eq_result[1] <=> class_of(arch_self) = class_of(arch_other))

\* C24, amended: two Architecture values with known names compare equal
\* exactly when they are in the same of the four groups arm_32, arm_64,
\* x86_32, x86_64 (arm64 == aarch64, but not arm == aarch64); values of
\* different classes never compare equal.
C24_EqualByGroup ==
    (KnownPair /\ eq_result # <<>>) =>
        /\ eq_result[1] <=> group_of(arch_self) = group_of(arch_other)
        /\ class_of(arch_self) # class_of(arch_other) => ~eq_result[1]

\* arm was compared with aarch64 and found different
C24_Witness ==
    /\ arch_self = Architecture("arm")
    /\ arch_other = Architecture("aarch64")
    /\ eq_result = <<FALSE>>

\* C25: for two Architecture values with known names, a != b is the
\* negation of a == b.
C25_NeNegatesEq ==
    (KnownPair /\ eq_result # <<>> /\ ne_result # <<>>) =>
        (ne_result[1] <=> ~eq_result[1])

\* ------------------------------------------------------------------------
\* Properties of the driver's loop as a whole

\* the inputs are larger than the maximum and `none` is the only candidate
OnlyNoneTooBig ==
    /\ inputs_size > board.image_max_size
    /\ compress(board, compress_arg) = <<"none">>

\* C26: when the inputs are larger than the maximum and `none` is the only
\* candidate, so that removing it leaves the list empty, the run ends with
\* a size error (InitramfsSizeTooBigError iff there is a ramdisk,
\* SizeTooBigError iff there is none) with no candidate built, no tool
\* invoked, no scratch directory made, and the output path and outtmp as
\* they were.
C26_EmptyListFails ==
    OnlyNoneTooBig =>
        /\ pc \in {"start", "skip_none", "loop", "done"}
        /\ PastSkipNone => compress_list = <<>>
        /\ built = <<>>
        /\ calls = <<>>
        /\ scratch = {}
        /\ files = [output |-> previous, outtmp |-> NoFile]
        /\ pc = "done" =>
               /\ result \in {SizeTooBigError, InitramfsSizeTooBigError}
               /\ (result = InitramfsSizeTooBigError) <=> (initrd # <<>>)
               /\ (result = SizeTooBigError) <=> (initrd = <<>>)

\* a zimage board whose kernel and ramdisk together exceed the maximum: the
\* loop had nothing to iterate
C26_Witness ==
    /\ OnlyNoneTooBig
    /\ board.image_format = "zimage"
    /\ compress_arg = <<>>
    /\ ~initramfs_too_big
    /\ compress_list = <<>>
    /\ pc = "done"
    /\ result = InitramfsSizeTooBigError

\* how a run of depthchargectl build can end
Outcomes == {Returned, BuildFailed, SizeTooBigError, InitramfsSizeTooBigError}

\* no candidate was taken twice
NoRebuild == \A i, j \in 1..Len(built) : built[i] = built[j] => i = j

\* C27: every run ends, and ends in exactly one of: the image copied to the
\* output path and the path returned, the build-failure exit, the generic
\* size error, the ramdisk size error; no candidate is built twice and
\* mkdepthcharge is invoked at most once for each entry of the
\* de-duplicated candidate list.
C27_Terminates ==
    /\ <>[](pc = "done" /\ result \in Outcomes)
    /\ [](/\ NoRebuild
          /\ Len(built) <= Len(compress(board, compress_arg))
          /\ Range(built) \subseteq Range(compress(board, compress_arg))
          /\ (pc = "done") <=> (result \in Outcomes)
          /\ result = Returned => (output = outtmp /\ output.by = built[Len(built)]))

\* every candidate of a list of three was built and the run ended with the
\* generic size error
C27_Witness ==
    /\ pc = "done"
    /\ result = SizeTooBigError
    /\ Len(compress(board, compress_arg)) = 3
    /\ built = compress(board, compress_arg)

\* C28: the patch of temp.img changes the eight bytes at params_offset +
\* 0x218 .. params_offset + 0x21f at most, params_offset being the file
\* offset of the bootloader (the initramfs) less 0x1000: every other byte
\* is as the first signing pass wrote it and the size of the file is the
\* same, whether the patch is made or one of its checks fails.
C28_PatchFrame ==
    [][ zi_pc = "patch" =>
            LET p == bootloader_offset - PageSize IN
            /\ params_offset = p
            /\ DOMAIN data' = DOMAIN data
            /\ temp_size' = temp_size
            /\ \A o \in DOMAIN data :
                   o \notin (p + 536)..(p + 543) => data'[o] = data[o]
            /\ zi_pc' = "repack" =>
                   /\ p = placed_at - PageSize
                   /\ (p + 535)..(p + 544) \subseteq DOMAIN data
      ]_vars

\* the patch wrote the two fields and the bytes next to them are as they were
C28_Witness ==
    /\ zi_pc = "repack"
    /\ initramfs_size = 4095
    /\ data[placed_at - PageSize + 535] = 255
    /\ slice(data, placed_at - PageSize + 540, placed_at - PageSize + 544)
           = <<255, 15, 0, 0>>
    /\ data[placed_at - PageSize + 544] = 255
    /\ temp_size = placed_at + PageSize

\* the address the claim has the option resolve to
claimed_start ==
    IF kernel_start_arg = <<>> THEN KernelStart ELSE kernel_start_arg[1]

\* C29: --kernel-start resolves without an error, to 0x100000 when it is
\* not given and to the given address when it is, and the resolved value is
\* the load address of the padding computation and of the translation of
\* the initramfs offset into the address written to the boot params.
C29_KernelStartResolved ==
    zi_pc \notin {"off", "options"} =>
        /\ zi_err \notin {kernel_start(a).raises : a \in {<<x>> : x \in KernelStartArgs}}
        /\ self_kernel_start = claimed_start
        /\ Padded =>
               pad_to = align_up(addr_to_offs(pref_address + init_size, claimed_start))
        /\ zi_pc = "repack" =>
               unpack_le(slice(data, params_offset + 536, params_offset + 540))
                   = offs_to_addr(initramfs_offset, claimed_start)

====
